---- MODULE Spec2Model ----
(***************************************************************************)
(* Template_Matching (src/Gait_Cycle_Template_Matching.py): the instance   *)
(* state of the class, its four pipeline stages and the orchestrator       *)
(* find_template_extract_inds, as a state machine.                         *)
(*                                                                         *)
(* SignalGraphWindow (src/Manual_Inflection_Point_Marking_GUI.py): the     *)
(* marks of the labelling tool, its navigation and what it saves.          *)
(*                                                                         *)
(* Numbers.  Sample values are reals in the source.  Here every sample is  *)
(* held on an integer grid (fixed point): a quotient is rounded down.      *)
(* Python indices are 0-based; a Python index p is element p + 1 of the    *)
(* TLA+ sequence.  All indices kept in the state (labels, buffered         *)
(* positions, detected indices) are the Python values.                     *)
(*                                                                         *)
(* Sizes.  The source builds templates of 100 + 100 samples and smooths    *)
(* with a window of 93 samples.  Both are held here as definitions of a    *)
(* smaller size (lowerInflPointRange, upperInflPointRange, HalfWindow), so *)
(* that signals of a few dozen samples exercise every branch.              *)
(***************************************************************************)
EXTENDS Integers, Sequences, FiniteSets, TLC

VARIABLES
    templateArr,            \* self.templateArr: rows extracted around the labels
    template,               \* self.template: mean of templateArr along axis 0
    overlapVals,            \* self.overlapVals: every similarity score computed
    overlapIndicesBuffer,   \* self.overlapIndicesBuffer: positions of the open run
    overlapValBuffer,       \* self.overlapValBuffer: scores of the open run
    keptOverlapIndices,     \* self.keptOverlapIndices: detections kept so far
    inflPointDict,          \* self.inflPointDict: key -> detected indices
    pc,                     \* where find_template_extract_inds stands
    args,                   \* arguments of the current (or last) call
    pending,                \* keys the loop of line 206 has still to visit
    retval,                 \* what the last finished call gave its caller
    printed,                \* lines printed by the current (or last) call
    history,                \* the finished calls: arguments and outcome (observation only)
    pass,                   \* the last dataset pass: its inputs and what it met (observation only)
    gui,                    \* SignalGraphWindow: its fields, the two saved files, where it stands
    marked                  \* the marks shown for each dataset, and the clicks made (observation only)

vars == <<templateArr, template, overlapVals, overlapIndicesBuffer,
          overlapValBuffer, keptOverlapIndices, inflPointDict, pc, args,
          pending, retval, printed, history, pass, gui, marked>>

-----------------------------------------------------------------------------
(* Sizes of the model *)

\* self.lowerInflPointRange / self.upperInflPointRange (100 and 100 in the
\* source, lines 50-51), scaled.
lowerInflPointRange == 2
upperInflPointRange == 2
\* half of the smoothing window passed at line 209 (93 = 2 * 46 + 1), scaled.
HalfWindow == 2
\* polynomial order passed at line 209
SmoothOrder == 3
\* default of signalIncreaseVal, line 200
DefaultBias == 20
\* calls made on one instance
MaxCalls == 2
\* longest raw signal and largest factor given to upsample_with_inflections
\* when it is exercised alone
MaxUpLen == 5
MaxFactor == 3
ExtractLen == 7
MaxLabels == 3
MaxSmoothLen == 6
MaxWindow == 7
\* 15 * self.upSampleVal, the reach of a click (900 samples in the source,
\* GUI lines 322 and 351), scaled
NearDist == 2
\* clicks made in one session of the labelling tool
MaxClicks == 3

-----------------------------------------------------------------------------
(* Arithmetic and sequence helpers *)

Min(a, b) == IF a < b THEN a ELSE b
Max(a, b) == IF a > b THEN a ELSE b
Abs(a) == IF a < 0 THEN -a ELSE a

RECURSIVE SumSeq(_)
SumSeq(s) == IF s = <<>> THEN 0 ELSE Head(s) + SumSeq(Tail(s))

Reverse(s) == [q \in 1..Len(s) |-> s[Len(s) + 1 - q]]

\* ceil(a / b) for a >= 0, b > 0
CeilDiv(a, b) == (a + b - 1) \div b

\* Python's slice bound: a negative bound counts from the end, and every bound
\* is clipped to 0..n.
PyBound(k, n) == IF k < 0 THEN Max(k + n, 0) ELSE Min(k, n)

\* s[a:b] of Python / numpy: never raises, may be shorter than b - a, or empty.
Slice(s, a, b) ==
    LET lo == PyBound(a, Len(s))
        hi == PyBound(b, Len(s))
    IN  IF hi > lo THEN SubSeq(s, lo + 1, hi) ELSE <<>>

\* the elements of a set of integers in increasing order
RECURSIVE SortedSeq(_)
SortedSeq(S) ==
    IF S = {} THEN <<>>
    ELSE LET m == CHOOSE x \in S : \A y \in S : x <= y
         IN  <<m>> \o SortedSeq(S \ {m})

Range(s) == {s[q] : q \in 1..Len(s)}

-----------------------------------------------------------------------------
(* upsample_with_inflections, lines 65-83.  x is np.arange(n), as line 208  *)
(* passes it.                                                              *)

\* np.linspace(x.min(), x.max(), len(x) * upsampleFactor), line 71: position j
\* (0-based) is j * (n - 1) / (n * f - 1).  A position is held as its
\* numerator over the common denominator LinspaceDen(n, f).
LinspaceDen(n, f) == n * f - 1
LinspaceNum(j, n) == j * (n - 1)

\* interpolate.interp1d(x, y, kind='cubic') evaluated at new position j, lines
\* 74-75.  The interpolant passes through the samples: at a position that is
\* an original sample position it returns that sample.  Between two samples
\* the cubic value is a real number; on the integer grid it is represented by
\* the value of the chord between the two neighbouring samples, rounded down.
Interp(y, j, f) ==
    LET n   == Len(y)
        num == LinspaceNum(j, n)
        den == LinspaceDen(n, f)
        p   == num \div den
        r   == num % den
    IN  IF r = 0 THEN y[p + 1]
        ELSE y[p + 1] + ((y[p + 2] - y[p + 1]) * r) \div den

\* SearchSorted that takes the last new position not above the label (a
\* faulty variant, against which C13 must fail)
SearchSortedBelow(l, n, f) == (l * LinspaceDen(n, f)) \div (n - 1)

\* np.searchsorted(xNew, l), line 78: the first new position that is >= l.
SearchSorted(l, n, f) == CeilDiv(l * LinspaceDen(n, f), n - 1)

\* x[inflectionMask], lines 67-68 and 78: the boolean mask keeps each labelled
\* position once, in increasing order (a negative index counts from the end).
MaskedLabels(labels, n) ==
    SortedSeq({IF l < 0 THEN l + n ELSE l : l \in Range(labels)})

\* PreserveLabels with line 81 left out: the interpolated values stay (a
\* faulty variant, against which C1 must fail)
PreserveLabelsOmitted(yNew, y, masked, newInd) == yNew

\* line 81, yNew[newInflectionIndices] = y[inflectionMask]: element j of yNew
\* after the assignment (the last label written to j wins).
PreserveLabels(yNew, y, masked, newInd) ==
    [q \in 1..Len(yNew) |->
        IF \E k \in 1..Len(newInd) : newInd[k] = q - 1
        THEN LET k == CHOOSE k \in 1..Len(newInd) :
                        /\ newInd[k] = q - 1
                        /\ \A k2 \in 1..Len(newInd) : newInd[k2] = q - 1 => k2 <= k
             IN  y[masked[k] + 1]
        ELSE yNew[q]]

\* The whole function.  ok = FALSE when it raises: interp1d needs at least 4
\* samples for a cubic (line 74), and a label outside the signal is an
\* IndexError (line 68).
upsample_with_inflections(y, inflectionIndices, upsampleFactor) ==
    LET n == Len(y)
        f == upsampleFactor
    IN  IF n < 4 \/ \E l \in Range(inflectionIndices) : l < -n \/ l >= n
        THEN [ok |-> FALSE, xNew |-> <<>>, yNew |-> <<>>, ind |-> <<>>]
        ELSE LET masked == MaskedLabels(inflectionIndices, n)
                 xNew   == [q \in 1..(n * f) |-> LinspaceNum(q - 1, n)]
                 yInt   == [q \in 1..(n * f) |-> Interp(y, q - 1, f)]
                 newInd == [k \in 1..Len(masked) |-> SearchSorted(masked[k], n, f)]
             IN  [ok   |-> TRUE,
                  xNew |-> xNew,
                  yNew |-> PreserveLabels(yInt, y, masked, newInd),
                  ind  |-> newInd]

-----------------------------------------------------------------------------
(* savitzky_golay, lines 97-123, with deriv = 0 and rate = 1 (the defaults, *)
(* the only values the class passes).                                      *)

\* lines 100-110: the two checks, on the absolute values taken at lines
\* 100-101.  TRUE when neither TypeError is raised.
SavGolAccepts(window_size, order) ==
    LET w == Abs(window_size)
        p == Abs(order)
    IN  /\ ~(w % 2 # 1 \/ w < 1)
        /\ ~(w < p + 2)

\* lines 112-116: row 0 of the pseudo-inverse of the design matrix, i.e. the
\* least-squares smoothing weights, as numerators over one denominator.  For a
\* constant or linear fit they are the moving average; for a quadratic or
\* cubic fit c_k = (3(3h^2 + 3h - 1) - 15 k^2) / ((2h+3)(2h+1)(2h-1)).
SavGolDen(h, order) ==
    IF order <= 1 THEN 2 * h + 1 ELSE (2 * h + 3) * (2 * h + 1) * (2 * h - 1)
SavGolNum(k, h, order) ==
    IF order <= 1 THEN 1 ELSE 3 * (3 * h * h + 3 * h - 1) - 15 * k * k

\* lines 119-121: the signal padded on both sides with its own values
\* mirrored about the first / last sample.  The slices are Python slices: on a
\* signal shorter than half_window + 1 they are shorter than half_window.
SavGolPad(y, h) ==
    LET first == Reverse(Slice(y, 1, h + 1))
        last  == Reverse(Slice(y, -h - 1, -1))
        N     == Len(y)
    IN  [q \in 1..Len(first) |-> y[1] - Abs(first[q] - y[1])]
          \o y
          \o [q \in 1..Len(last) |-> y[N] + Abs(last[q] - y[N])]

\* line 123: np.convolve(m[::-1], y, mode='valid').  The result has
\* max(P, w) - min(P, w) + 1 elements, P the padded length and w the window;
\* numpy slides the shorter operand along the longer one.
SavGolConvolve(padded, h, order) ==
    LET w == 2 * h + 1
        P == Len(padded)
        m(k) == SavGolNum(k - h, h, order)      \* k in 0..w-1
    IN  IF P >= w
        THEN [t \in 1..(P - w + 1) |->
                SumSeq([k \in 1..w |-> m(k - 1) * padded[t + k - 1]])
                    \div SavGolDen(h, order)]
        ELSE [t \in 1..(w - P + 1) |->
                SumSeq([q \in 1..P |-> padded[q] * m(w - P - (t - 1) + q - 1)])
                    \div SavGolDen(h, order)]

\* The whole function.  ok = FALSE when it raises (a refused window or
\* order, or y[0] on an empty signal).
savitzky_golay(y, window_size, order) ==
    IF ~SavGolAccepts(window_size, order) \/ Len(y) = 0
    THEN [ok |-> FALSE, ys |-> <<>>]
    ELSE LET h == (Abs(window_size) - 1) \div 2
         IN  [ok |-> TRUE,
              ys |-> SavGolConvolve(SavGolPad(y, h), h, Abs(order)) \o <<>>]

-----------------------------------------------------------------------------
(* The arrays of the instance *)

\* np.array([]) of lines 40-48: a 1-D array without elements.
\* An array is held with its number of dimensions: a 1-D array v is
\* [ndim |-> 1, rows |-> <<v>>], a 2-D array is the sequence of its rows.
EmptyArr == [ndim |-> 1, rows |-> << <<>> >>]

\* len(a) of an array: its elements when 1-D, its rows when 2-D.
ArrLen(a) == IF a.ndim = 1 THEN Len(a.rows[1]) ELSE Len(a.rows)

\* the columns np.vstack sees (np.atleast_2d makes a 1-D array one row)
ArrWidth(a) == Len(a.rows[1])

\* self.template = 0 of lines 41-42: a Python int, which has no len().
\* A template is a scalar (kind "int", "scalar", "nan") or a vector.
InitTemplate == [kind |-> "int", v |-> <<0>>]

\* len(self.template) raises TypeError unless the template is an array.
HasLen(t) == t.kind = "vector"

-----------------------------------------------------------------------------
(* extract_template, lines 133-144 *)

\* the window of lines 138 and 140 for label index i
Window(inputPressData, i) ==
    Slice(inputPressData, i - lowerInflPointRange, i + upperInflPointRange)

\* One iteration of the loop, lines 136-142.  The slice never raises; the
\* only exception is np.vstack refusing rows of different widths, and it
\* leaves self.templateArr as it was (line 142 prints it).
ExtractOne(arr, inputPressData, i) ==
    LET w == Window(inputPressData, i)
    IN  IF ArrLen(arr) = 0
        THEN [arr |-> [ndim |-> 1, rows |-> <<w>>], raised |-> FALSE]
        ELSE IF Len(w) = ArrWidth(arr)
             THEN [arr |-> [ndim |-> 2, rows |-> Append(arr.rows, w)],
                   raised |-> FALSE]
             ELSE [arr |-> arr, raised |-> TRUE]

\* lines 135-142: the loop; raised[k] tells whether label k hit the except.
RECURSIVE ExtractLoop(_, _, _, _)
ExtractLoop(arr, inputPressData, inputIndices, raised) ==
    IF inputIndices = <<>>
    THEN [arr |-> arr, raised |-> raised]
    ELSE LET one == ExtractOne(arr, inputPressData, Head(inputIndices))
         IN  ExtractLoop(one.arr, inputPressData, Tail(inputIndices),
                         Append(raised, one.raised))

\* the mean of column j of a 2-D array
ColumnMean(rows, j) ==
    SumSeq([r \in 1..Len(rows) |-> rows[r][j]]) \div Len(rows)

\* line 144, np.mean(self.templateArr, axis = 0): of a 2-D array the vector
\* of column means; of a 1-D array ONE number, the mean of its elements; of
\* an empty array nan (numpy warns and does not raise).
MeanAxis0(arr) ==
    IF arr.ndim = 2
    THEN [kind |-> "vector",
          v |-> [j \in 1..ArrWidth(arr) |-> ColumnMean(arr.rows, j)]]
    ELSE IF arr.rows[1] = <<>>
         THEN [kind |-> "nan", v |-> <<>>]
         ELSE [kind |-> "scalar",
               v |-> <<SumSeq(arr.rows[1]) \div Len(arr.rows[1])>>]

\* The whole method, from self.templateArr = arr.
extract_template(arr, inputIndices, inputPressData) ==
    LET loop == ExtractLoop(arr, inputPressData, inputIndices, <<>>)
    IN  [templateArr |-> loop.arr,
         template    |-> MeanAxis0(loop.arr),
         raised      |-> loop.raised]

-----------------------------------------------------------------------------
(* find_infl_using_template, lines 153-187 *)

\* OverlapVal that sums the differences with their signs (a faulty variant,
\* against which C16 must fail)
OverlapValSigned(inputPressData, tmpl, signalIncreaseVal, i) ==
    signalIncreaseVal
      - SumSeq([j \in 1..Len(tmpl) |-> inputPressData[i + j] - tmpl[j]])

\* lines 159-162: the score of the window starting at Python index i
OverlapVal(inputPressData, tmpl, signalIncreaseVal, i) ==
    signalIncreaseVal
      - SumSeq([j \in 1..Len(tmpl) |-> Abs(inputPressData[i + j] - tmpl[j])])

\* lines 175-176: np.where(buffer == np.max(buffer)) gives EVERY place of the
\* buffer that holds the maximum, and the fancy index of line 176 gives the
\* buffered position of each of them, in buffer order.
MaxOverlapPoints(valBuffer, indicesBuffer) ==
    LET mx == CHOOSE v \in Range(valBuffer) : \A u \in Range(valBuffer) : u <= v
        at == SortedSeq({k \in 1..Len(valBuffer) : valBuffer[k] = mx})
    IN  [k \in 1..Len(at) |-> indicesBuffer[at[k]]]

\* line 179: every maximum point, less one, is appended to the kept indices
KeepMax(kept, pts) == kept \o [k \in 1..Len(pts) |-> pts[k] - 1]

\* Lines 163-183 of one iteration, ov the score of line 162 and pos the
\* position i - len(self.template) it is buffered under.  b.problems counts
\* the passes through the except of line 184: line 169 reads
\* self.overlapIndices, which no line of the class ever sets, so it raises
\* AttributeError after lines 167-168 have extended the buffers.
Buffer(b, ov, pos) ==
    IF ov > 0
    THEN [b EXCEPT
            !.overlapVals = Append(@, ov),
            !.overlapValBuffer = Append(@, ov),
            !.overlapIndicesBuffer = Append(@, pos),
            !.problems = @ + 1]
    ELSE IF Len(b.overlapValBuffer) > 0
         THEN [b EXCEPT
                 !.overlapVals = Append(@, ov),
                 !.keptOverlapIndices =
                     KeepMax(@, MaxOverlapPoints(b.overlapValBuffer,
                                                 b.overlapIndicesBuffer)),
                 !.overlapValBuffer = <<>>,
                 !.overlapIndicesBuffer = <<>>]
         ELSE [b EXCEPT !.overlapVals = Append(@, ov)]

\* One iteration of the loop, lines 155-187, on the fields b of the
\* instance.  len(self.template) of line 156 raises when the template is no
\* array, and the except of line 184 catches it.
FindOne(b, inputPressData, tmpl, signalIncreaseVal, i) ==
    IF ~HasLen(tmpl)
    THEN [b EXCEPT !.problems = @ + 1]
    ELSE IF ~(i > Len(tmpl.v) /\ i < Len(inputPressData) - Len(tmpl.v))
         THEN b
         ELSE Buffer(b,
                     OverlapVal(inputPressData, tmpl.v, signalIncreaseVal, i),
                     i - Len(tmpl.v))

\* line 154: for i in range(len(inputPressData) - 2)
RECURSIVE FindLoop(_, _, _, _, _)
FindLoop(b, inputPressData, tmpl, signalIncreaseVal, i) ==
    IF i >= Len(inputPressData) - 2
    THEN b
    ELSE LET b1 == FindOne(b, inputPressData, tmpl, signalIncreaseVal, i)
         IN  IF b1.problems >= 0   \* (always: the fields after iteration i)
             THEN FindLoop(b1, inputPressData, tmpl, signalIncreaseVal, i + 1)
             ELSE b1

\* The whole method on the fields b.
find_infl_using_template(b, inputPressData, tmpl, signalIncreaseVal) ==
    FindLoop(b, inputPressData, tmpl, signalIncreaseVal, 0)

-----------------------------------------------------------------------------
(* find_template_extract_inds, lines 200-216 *)

\* the dataset names, in the order the caller inserted them in the mappings
\* (a dict iterates in insertion order)
KeyOrder == <<"a", "b">>
Keys == Range(KeyOrder)
KeysOf(dict) == SelectSeq(KeyOrder, LAMBDA k : k \in DOMAIN dict)

\* KeysDiffer that only asks that every pressure key has labels (a faulty
\* variant, against which C8 must fail)
KeysDifferOneWay(inputPressDict, inputIndDict) ==
    ~(DOMAIN inputPressDict \subseteq DOMAIN inputIndDict)

\* line 201: dict key views compare as sets
KeysDiffer(inputPressDict, inputIndDict) ==
    DOMAIN inputPressDict # DOMAIN inputIndDict

\* OffsetAdjust without the addition of line 214 (a faulty variant, against
\* which C7 must fail)
OffsetAdjustNoHalf(kept, L) == [k \in 1..Len(kept) |-> kept[k] + L]

\* lines 213-214: round every kept index, add len(self.template), then add
\* int(0.5 * len(self.template)).
OffsetAdjust(kept, L) == [k \in 1..Len(kept) |-> (kept[k] + L) + L \div 2]

\* What one pass of the loop body gives: the fields after it, whether an
\* exception left the method, and what the stages produced.
PassResult(self, raised, stage, up, pressData, skipped) ==
    [self |-> self, raised |-> raised, stage |-> stage, up |-> up,
     pressData |-> pressData, skipped |-> skipped]

\* lines 213-214: len(self.template) raises TypeError when the template is no
\* array; otherwise the adjusted indices of ALL of self.keptOverlapIndices
\* are stored under the key.
PassStore(self, key, up, pressData, skipped) ==
    IF ~HasLen(self.template)
    THEN PassResult(self, TRUE, "offset", up, pressData, skipped)
    ELSE PassResult(
            [self EXCEPT !.inflPointDict =
                [k \in DOMAIN @ \cup {key} |->
                    IF k = key
                    THEN OffsetAdjust(self.keptOverlapIndices, Len(self.template.v))
                    ELSE @[k]]],
            FALSE, "stored", up, pressData, skipped)

\* line 212 done: b holds the fields find_infl_using_template worked on
PassFind(self, key, up, pressData, skipped, b) ==
    PassStore([self EXCEPT
                 !.overlapVals = b.overlapVals,
                 !.overlapIndicesBuffer = b.overlapIndicesBuffer,
                 !.overlapValBuffer = b.overlapValBuffer,
                 !.keptOverlapIndices = b.keptOverlapIndices,
                 !.printed = [@ EXCEPT !.template = @ + b.problems]],
              key, up, pressData, skipped)

\* line 211 done: ex is what extract_template left; then line 212
PassExtract(self, key, up, pressData, ex, signalIncreaseVal) ==
    PassFind([self EXCEPT
                 !.templateArr = ex.templateArr,
                 !.template = ex.template,
                 !.printed = [@ EXCEPT !.extract =
                     @ + Cardinality({k \in 1..Len(ex.raised) : ex.raised[k]})]],
             key, up, pressData, ex.raised,
             find_infl_using_template(
                 [overlapVals          |-> self.overlapVals,
                  overlapIndicesBuffer |-> self.overlapIndicesBuffer,
                  overlapValBuffer     |-> self.overlapValBuffer,
                  keptOverlapIndices   |-> self.keptOverlapIndices,
                  problems             |-> 0],
                 pressData, ex.template, signalIncreaseVal))

\* line 209 done: sg is what savitzky_golay returned; then line 211
PassSmooth(self, key, up, sg, signalIncreaseVal) ==
    IF ~sg.ok
    THEN PassResult(self, TRUE, "smooth", up, <<>>, <<>>)
    ELSE PassExtract(self, key, up, sg.ys,
                     extract_template(self.templateArr, up.ind, sg.ys),
                     signalIncreaseVal)

\* line 208 done: up is what upsample_with_inflections returned; then line 209
PassUpsample(self, key, up, signalIncreaseVal) ==
    IF ~up.ok
    THEN PassResult(self, TRUE, "upsample", up, <<>>, <<>>)
    ELSE PassSmooth(self, key, up,
                    savitzky_golay(up.yNew, 2 * HalfWindow + 1, SmoothOrder),
                    signalIncreaseVal)

\* Lines 208-214 for one key, from the instance fields self.  raised = TRUE
\* when an exception leaves the method: upsample_with_inflections raising
\* (line 208), or len(self.template) of line 213 on a template that is no
\* array.  The fields keep whatever the stages before the exception did.
DatasetPass(self, key, y, labels, upSampleFact, signalIncreaseVal) ==
    PassUpsample(self, key,
                 upsample_with_inflections(y, labels, upSampleFact),
                 signalIncreaseVal)

-----------------------------------------------------------------------------
(* The callers' inputs *)

\* one gait cycle of raw pressure samples, and a second, different one
CycleA == <<0, 6, 30, 12, 0, 0>>
CycleB == <<0, 0, 18, 24, 6, 0>>

RECURSIVE Repeat(_, _)
Repeat(s, k) == IF k = 0 THEN <<>> ELSE s \o Repeat(s, k - 1)

\* A dataset: a raw signal and the label indices marked on it.
Dataset(y, labels) == [y |-> y, labels |-> labels]

\* four cycles, two of them labelled at the peak
DataPlain == Dataset(Repeat(CycleA, 4), <<8, 14>>)
\* the same with a label on the first and on the last sample, labels given
\* in the order they were clicked
DataEdges == Dataset(Repeat(CycleA, 4), <<23, 14, 8, 0>>)
\* one label only
DataOne   == Dataset(Repeat(CycleA, 4), <<14>>)
\* a recording that stops in the middle of a cycle
DataCut   == Dataset(SubSeq(Repeat(CycleA, 4), 1, 23), <<8, 14>>)
\* a flat baseline before one step, labelled on the baseline
DataFlat  == Dataset(Repeat(<<0>>, 12) \o CycleA \o Repeat(<<0>>, 6), <<2, 3>>)
\* a lead-in, then cycles; the first labelled cycle lies too close to the
\* start to be matched
DataLead  == Dataset(SubSeq(Repeat(<<0>>, 4) \o Repeat(CycleA, 3), 1, 20), <<6, 12>>)
\* another shape
DataOther == Dataset(Repeat(CycleB, 4), <<9, 15>>)
\* fewer than four samples
DataShort == Dataset(<<0, 6, 30>>, <<1>>)

\* both labels too close to the start: no label yields a window
DataNoWindow == Dataset(Repeat(CycleA, 4), <<0, 1>>)

Datasets == {DataPlain, DataEdges, DataOne, DataCut, DataFlat, DataLead,
             DataOther, DataShort, DataNoWindow}

Factors == {1, 2}
Biases == {DefaultBias}

OneKey(d)       == [press |-> [k \in {"a"} |-> d.y],
                    ind   |-> [k \in {"a"} |-> d.labels]]
TwoKeys(d1, d2) == [press |-> [k \in Keys |-> IF k = "a" THEN d1.y ELSE d2.y],
                    ind   |-> [k \in Keys |-> IF k = "a" THEN d1.labels
                                                         ELSE d2.labels]]

\* The arguments of one call: one dataset with any factor; two datasets; and
\* mappings whose key sets differ, either way round.
CallInputs ==
    { [d |-> OneKey(d), f |-> f] : d \in Datasets, f \in Factors }
    \cup { [d |-> TwoKeys(d, DataPlain), f |-> 1] : d \in Datasets \ {DataShort} }
    \cup { [d |-> TwoKeys(DataPlain, d), f |-> 1] :
               d \in {DataOne, DataOther, DataNoWindow} }
    \cup { [d |-> [press |-> OneKey(DataPlain).press,
                   ind   |-> TwoKeys(DataPlain, DataPlain).ind], f |-> 1],
           [d |-> [press |-> TwoKeys(DataPlain, DataOther).press,
                   ind   |-> OneKey(DataPlain).ind], f |-> 1] }

-----------------------------------------------------------------------------
(* SignalGraphWindow, src/Manual_Inflection_Point_Marking_GUI.py.  A       *)
(* marker is held as the sample index it is drawn at; the operators work   *)
(* on the record g of the window's fields.                                 *)

\* self.dataKeys, line 161: the dataset names of the loaded file, in order
dataKeys == KeyOrder

\* a dict with key set to v
DictPut(d, key, v) ==
    [k \in DOMAIN d \cup {key} |-> IF k = key THEN v ELSE d[k]]

\* a saved-marks file that does not exist (lines 79-81: its path stays None)
NoFile == [exists |-> FALSE, dict |-> <<>>]

\* the fields after lines 53-76 (keyIndex -1 stands for None); pos "off":
\* no window has been made
NoGui ==
    [pos |-> "off", keyIndex |-> -1,
     hs_click_locations |-> <<>>, hs_markers |-> <<>>,
     to_click_locations |-> <<>>, to_markers |-> <<>>,
     savedHSInflPointDict |-> <<>>, savedTOInflPointDict |-> <<>>,
     inflMarker |-> "Heel Strike",
     hs_file |-> NoFile, to_file |-> NoFile]

NoMarked == [marks |-> <<>>, clicks |-> 0]

\* self.dataKeys[self.keyIndex]
CurrentKey(g) == dataKeys[g.keyIndex + 1]

\* lines 163-171: the saved dictionaries are read when their files exist
load_pkl_file_data(g) ==
    [g EXCEPT
       !.savedHSInflPointDict = IF g.hs_file.exists THEN g.hs_file.dict ELSE @,
       !.savedTOInflPointDict = IF g.to_file.exists THEN g.to_file.dict ELSE @]

\* lines 188-208 and 229-249: the saved marks of the dataset now shown, when
\* it has any, are appended to the click lists, a marker for each
ShowSavedForward(g) ==
    LET key == CurrentKey(g)
        hs  == IF key \in DOMAIN g.savedHSInflPointDict
               THEN g.savedHSInflPointDict[key] ELSE <<>>
        to  == IF key \in DOMAIN g.savedTOInflPointDict
               THEN g.savedTOInflPointDict[key] ELSE <<>>
    IN  [g EXCEPT !.hs_click_locations = @ \o hs, !.hs_markers = @ \o hs,
                  !.to_click_locations = @ \o to, !.to_markers = @ \o to]

\* lines 175-252.  On the first call (keyIndex None) the window opens on the
\* last dataset the saved file knows, or on the first one; later it moves one
\* dataset on, unless the last one is shown: then nothing is reloaded.
update_graph_data_forward(g) ==
    IF g.keyIndex = -1
    THEN IF g.hs_file.exists
         THEN ShowSavedForward(
                 [g EXCEPT !.keyIndex = Cardinality(DOMAIN g.savedHSInflPointDict) - 1])
         ELSE [g EXCEPT !.keyIndex = 0]
    ELSE IF g.keyIndex < Len(dataKeys) - 1
         THEN ShowSavedForward([g EXCEPT !.keyIndex = @ + 1])
         ELSE g

\* lines 255-293.  Unless the first dataset is shown it moves one dataset
\* back and reloads its saved marks; the dictionaries are indexed without a
\* test (lines 270, 281: KeyError for a dataset never saved, pos "raised"),
\* and line 289, outside its loop, keeps one marker for all toe-off marks.
update_graph_data_backward(g) ==
    IF g.keyIndex = 0
    THEN g
    ELSE LET g1  == [g EXCEPT !.keyIndex = @ - 1]
             key == CurrentKey(g1)
         IN  IF key \notin DOMAIN g1.savedHSInflPointDict
             THEN [g1 EXCEPT !.pos = "raised"]
             ELSE LET hs == g1.savedHSInflPointDict[key]
                      g2 == [g1 EXCEPT !.hs_click_locations = @ \o hs,
                                       !.hs_markers = @ \o hs]
                  IN  IF key \notin DOMAIN g2.savedTOInflPointDict
                      THEN [g2 EXCEPT !.pos = "raised"]
                      ELSE LET to == g2.savedTOInflPointDict[key]
                           IN  [g2 EXCEPT
                                  !.to_click_locations = @ \o to,
                                  !.to_markers =
                                      IF to = <<>> THEN @
                                      ELSE Append(@, to[Len(to)])]

\* lines 426-445: the click lists go into the two dictionaries under the
\* dataset shown, and the click lists and marker lists are emptied
save_indices(g) ==
    [g EXCEPT
       !.savedHSInflPointDict = DictPut(@, CurrentKey(g), g.hs_click_locations),
       !.savedTOInflPointDict = DictPut(@, CurrentKey(g), g.to_click_locations),
       !.hs_click_locations = <<>>, !.hs_markers = <<>>,
       !.to_click_locations = <<>>, !.to_markers = <<>>]

\* lines 296-299 and 303-306
change_data_to_mark_forward(g) == update_graph_data_forward(save_indices(g))
change_data_to_mark_backward(g) == update_graph_data_backward(save_indices(g))

\* lines 392-403
hs_to_toggle(g) ==
    [g EXCEPT !.inflMarker = IF @ = "Heel Strike" THEN "Toe Off" ELSE "Heel Strike"]

\* without element k
RemoveAt(q, k) == SubSeq(q, 1, k - 1) \o SubSeq(q, k + 1, Len(q))

\* lines 320-335 and 349-364 on one kind of mark.  A click within NearDist of
\* a mark takes the nearest mark (the first of them, np.argmin) out of the
\* click list, with the marker at the same place of the marker list
\* (IndexError when that list is shorter); any other click adds a mark.
ClickOn(locs, markers, index) ==
    LET near == {k \in 1..Len(locs) : Abs(locs[k] - index) < NearDist}
        k == CHOOSE k1 \in 1..Len(locs) :
                 \A k2 \in 1..Len(locs) :
                     \/ Abs(locs[k1] - index) < Abs(locs[k2] - index)
                     \/ (Abs(locs[k1] - index) = Abs(locs[k2] - index) /\ k1 <= k2)
    IN  IF near = {}
        THEN [locs |-> Append(locs, index), markers |-> Append(markers, index),
              raised |-> FALSE]
        ELSE IF k > Len(markers)
             THEN [locs |-> locs, markers |-> markers, raised |-> TRUE]
             ELSE [locs |-> RemoveAt(locs, k), markers |-> RemoveAt(markers, k),
                   raised |-> FALSE]

\* lines 309-368: a click that lands on sample index of the signal
on_plot_click(g, index) ==
    IF g.inflMarker = "Heel Strike"
    THEN LET c == ClickOn(g.hs_click_locations, g.hs_markers, index)
         IN  [g EXCEPT !.hs_click_locations = c.locs, !.hs_markers = c.markers,
                       !.pos = IF c.raised THEN "raised" ELSE @]
    ELSE LET c == ClickOn(g.to_click_locations, g.to_markers, index)
         IN  [g EXCEPT !.to_click_locations = c.locs, !.to_markers = c.markers,
                       !.pos = IF c.raised THEN "raised" ELSE @]

\* lines 455-475: save_indices, then both dictionaries are written to their
\* files (the tests of lines 457 and 466 find the key that save_indices has
\* just set)
closeEvent(g) ==
    LET g1 == save_indices(g)
    IN  [g1 EXCEPT !.hs_file = [exists |-> TRUE, dict |-> g1.savedHSInflPointDict],
                   !.to_file = [exists |-> TRUE, dict |-> g1.savedTOInflPointDict],
                   !.pos = "closed"]

\* lines 32-87: the window is made, with the saved files as they are found
SignalGraphWindow(hs_file, to_file) ==
    update_graph_data_forward(
        load_pkl_file_data([NoGui EXCEPT !.pos = "open", !.hs_file = hs_file,
                                         !.to_file = to_file]))

\* An exception that leaves a Qt slot: PyQt5 either prints it and goes on or
\* aborts the process, by version and exception hook.
AfterSlot(g) ==
    IF g.pos = "raised"
    THEN {[g EXCEPT !.pos = "open"], [g EXCEPT !.pos = "aborted"]}
    ELSE {g}

-----------------------------------------------------------------------------
(* The state machine *)

NoPrint == [keys |-> 0, extract |-> 0, template |-> 0]
NoArgs  == [press |-> <<>>, ind |-> <<>>, upSampleFact |-> 1,
            signalIncreaseVal |-> DefaultBias]
NoPass  == [key |-> "", stage |-> "none", raised |-> FALSE,
            up |-> [ok |-> FALSE, xNew |-> <<>>, yNew |-> <<>>, ind |-> <<>>],
            pressData |-> <<>>, skipped |-> <<>>,
            before |-> [templateArr |-> EmptyArr, overlapValBuffer |-> <<>>,
                        overlapIndicesBuffer |-> <<>>,
                        keptOverlapIndices |-> <<>>, overlapVals |-> <<>>]]

\* __init__, lines 39-53
Init ==
    /\ templateArr = EmptyArr
    /\ template = InitTemplate
    /\ overlapVals = <<>>
    /\ overlapIndicesBuffer = <<>>
    /\ overlapValBuffer = <<>>
    /\ keptOverlapIndices = <<>>
    /\ inflPointDict = <<>>
    /\ pc = "idle"
    /\ args = NoArgs
    /\ pending = <<>>
    /\ retval = [kind |-> "nocall", value |-> <<>>]
    /\ printed = NoPrint
    /\ history = <<>>
    /\ pass = NoPass
    /\ gui = NoGui
    /\ marked = NoMarked

Fields == <<templateArr, template, overlapVals, overlapIndicesBuffer,
            overlapValBuffer, keptOverlapIndices, inflPointDict>>

\* A caller calls find_template_extract_inds, lines 200-204: on differing key
\* sets it prints and returns None; otherwise the loop of line 206 starts.
Call(inputPressDict, inputIndDict, upSampleFact, signalIncreaseVal) ==
    /\ pc \in {"idle", "raised"}
    /\ Len(history) < MaxCalls
    /\ args' = [press |-> inputPressDict, ind |-> inputIndDict,
                upSampleFact |-> upSampleFact,
                signalIncreaseVal |-> signalIncreaseVal]
    /\ IF KeysDiffer(inputPressDict, inputIndDict)
       THEN /\ printed' = [NoPrint EXCEPT !.keys = 1]
            /\ retval' = [kind |-> "none", value |-> <<>>]
            /\ pc' = "idle"
            /\ pending' = <<>>
            /\ history' = Append(history, [args |-> args', retval |-> retval'])
       ELSE /\ printed' = NoPrint
            /\ retval' = [kind |-> "running", value |-> <<>>]
            /\ pc' = "loop"
            /\ pending' = KeysOf(inputPressDict)
            /\ history' = history
    /\ pass' = NoPass
    /\ UNCHANGED Fields
    /\ UNCHANGED <<gui, marked>>

\* One turn of the loop of line 206: lines 208-214 for the next key.  An
\* exception that leaves the pass leaves the method: the caller gets no
\* mapping and the keys still pending are never visited.
ProcessDataset ==
    /\ pc = "loop"
    /\ pending # <<>>
    /\ LET key  == Head(pending)
           self == [templateArr |-> templateArr, template |-> template,
                    overlapVals |-> overlapVals,
                    overlapIndicesBuffer |-> overlapIndicesBuffer,
                    overlapValBuffer |-> overlapValBuffer,
                    keptOverlapIndices |-> keptOverlapIndices,
                    inflPointDict |-> inflPointDict,
                    printed |-> printed]
       IN  \E r \in {DatasetPass(self, key, args.press[key], args.ind[key],
                                 args.upSampleFact, args.signalIncreaseVal)} :
           /\ templateArr' = r.self.templateArr
           /\ template' = r.self.template
           /\ overlapVals' = r.self.overlapVals
           /\ overlapIndicesBuffer' = r.self.overlapIndicesBuffer
           /\ overlapValBuffer' = r.self.overlapValBuffer
           /\ keptOverlapIndices' = r.self.keptOverlapIndices
           /\ inflPointDict' = r.self.inflPointDict
           /\ printed' = r.self.printed
           /\ pass' = [key |-> key, stage |-> r.stage, raised |-> r.raised,
                       up |-> r.up, pressData |-> r.pressData,
                       skipped |-> r.skipped,
                       before |-> [templateArr |-> templateArr,
                                   overlapValBuffer |-> overlapValBuffer,
                                   overlapIndicesBuffer |-> overlapIndicesBuffer,
                                   keptOverlapIndices |-> keptOverlapIndices,
                                   overlapVals |-> overlapVals]]
           /\ IF r.raised
              THEN /\ pc' = "raised"
                   /\ pending' = pending
                   /\ retval' = [kind |-> "raised", value |-> <<>>]
                   /\ history' = Append(history, [args |-> args, retval |-> retval'])
              ELSE /\ pc' = "loop"
                   /\ pending' = Tail(pending)
                   /\ retval' = retval
                   /\ history' = history
    /\ UNCHANGED args
    /\ UNCHANGED <<gui, marked>>

\* line 216: return self.inflPointDict
Return ==
    /\ pc = "loop"
    /\ pending = <<>>
    /\ retval' = [kind |-> "dict", value |-> inflPointDict]
    /\ pc' = "idle"
    /\ history' = Append(history, [args |-> args, retval |-> retval'])
    /\ UNCHANGED Fields
    /\ UNCHANGED <<args, pending, printed, pass>>
    /\ UNCHANGED <<gui, marked>>

Next ==
    \/ \E in \in CallInputs, bias \in Biases :
          Call(in.d.press, in.d.ind, in.f, bias)
    \/ ProcessDataset
    \/ Return

Spec == Init /\ [][Next]_vars

-----------------------------------------------------------------------------
(* upsample_with_inflections exercised alone: every short signal over two   *)
(* sample values, every list of at most two labels (in any order, repeated  *)
(* or not) and the full list, every factor up to MaxFactor.                *)

SampleValues == {0, 3}

SignalsOfLen(n) == [1..n -> SampleValues]
LabelLists(n) ==
    {<<>>} \cup {<<l>> : l \in 0..(n - 1)}
           \cup {<<l1, l2>> : l1 \in 0..(n - 1), l2 \in 0..(n - 1)}
           \cup {[k \in 1..n |-> n - k]}

UpsampleArgs(y, labels, f) ==
    [press |-> [k \in {"a"} |-> y], ind |-> [k \in {"a"} |-> labels],
     upSampleFact |-> f, signalIncreaseVal |-> DefaultBias]

InitUpsample ==
    /\ templateArr = EmptyArr
    /\ template = InitTemplate
    /\ overlapVals = <<>>
    /\ overlapIndicesBuffer = <<>>
    /\ overlapValBuffer = <<>>
    /\ keptOverlapIndices = <<>>
    /\ inflPointDict = <<>>
    /\ pc = "ready"
    /\ \E n \in 4..MaxUpLen :
         \E y \in SignalsOfLen(n), labels \in LabelLists(n), f \in 1..MaxFactor :
            args = UpsampleArgs(y, labels, f)
    /\ pending = <<>>
    /\ retval = [kind |-> "nocall", value |-> <<>>]
    /\ printed = NoPrint
    /\ history = <<>>
    /\ pass = NoPass
    /\ gui = NoGui
    /\ marked = NoMarked

\* the call of line 208, alone
ApplyUpsample ==
    /\ pc = "ready"
    /\ pc' = "upsampled"
    /\ pass' = [NoPass EXCEPT
                  !.key = "a",
                  !.stage = "upsample",
                  !.up = upsample_with_inflections(args.press["a"], args.ind["a"],
                                                   args.upSampleFact)]
    /\ UNCHANGED Fields
    /\ UNCHANGED <<args, pending, retval, printed, history>>
    /\ UNCHANGED <<gui, marked>>

NextUpsample == ApplyUpsample

SpecUpsample == InitUpsample /\ [][NextUpsample]_vars

-----------------------------------------------------------------------------
(* extract_template exercised alone on a new instance: two signals of      *)
(* ExtractLen - 1 and of ExtractLen samples, every list of at most         *)
(* MaxLabels different labels, in any order.                               *)

ExtractSignals ==
    {[t \in 1..n |-> (t * t) % 5] : n \in (ExtractLen - 1)..ExtractLen}
    \cup {[t \in 1..n |-> 3 * t] : n \in (ExtractLen - 1)..ExtractLen}

RECURSIVE DistinctLists(_, _)
DistinctLists(S, m) ==
    IF m = 0 THEN {<<>>}
    ELSE LET shorter == DistinctLists(S, m - 1)
         IN  shorter \cup {Append(q, x) : q \in {q2 \in shorter : Len(q2) = m - 1},
                                          x \in S}

ExtractLabels(n) ==
    {q \in DistinctLists(0..(n - 1), MaxLabels) :
        /\ q # <<>>
        /\ \A k1, k2 \in 1..Len(q) : k1 # k2 => q[k1] # q[k2]}

InitExtract ==
    /\ templateArr = EmptyArr
    /\ template = InitTemplate
    /\ overlapVals = <<>>
    /\ overlapIndicesBuffer = <<>>
    /\ overlapValBuffer = <<>>
    /\ keptOverlapIndices = <<>>
    /\ inflPointDict = <<>>
    /\ pc = "ready"
    /\ \E y \in ExtractSignals :
         \E labels \in ExtractLabels(Len(y)) : args = UpsampleArgs(y, labels, 1)
    /\ pending = <<>>
    /\ retval = [kind |-> "nocall", value |-> <<>>]
    /\ printed = NoPrint
    /\ history = <<>>
    /\ pass = NoPass
    /\ gui = NoGui
    /\ marked = NoMarked

\* the call of line 211, alone
ApplyExtract ==
    /\ pc = "ready"
    /\ pc' = "extracted"
    /\ \E r \in {extract_template(templateArr, args.ind["a"], args.press["a"])} :
          /\ templateArr' = r.templateArr
          /\ template' = r.template
          /\ printed' = [printed EXCEPT
                           !.extract = Cardinality({k \in 1..Len(r.raised) : r.raised[k]})]
          /\ pass' = [NoPass EXCEPT !.key = "a", !.stage = "extract",
                                    !.pressData = args.press["a"],
                                    !.skipped = r.raised]
    /\ UNCHANGED <<overlapVals, overlapIndicesBuffer, overlapValBuffer,
                   keptOverlapIndices, inflPointDict>>
    /\ UNCHANGED <<args, pending, retval, history>>
    /\ UNCHANGED <<gui, marked>>

NextExtract == ApplyExtract

SpecExtract == InitExtract /\ [][NextExtract]_vars

-----------------------------------------------------------------------------
(* savitzky_golay exercised alone: two signals of every length up to       *)
(* MaxSmoothLen, every integer window from -MaxWindow to MaxWindow, every   *)
(* polynomial order from 0 to the order the class uses.                     *)

SmoothSignals ==
    {[t \in 1..n |-> (t * t) % 5] : n \in 1..MaxSmoothLen}
    \cup {[t \in 1..n |-> 3 * t] : n \in 1..MaxSmoothLen}

SmoothArgs(y, window_size, order) ==
    [y |-> y, window_size |-> window_size, order |-> order]

InitSavGol ==
    /\ templateArr = EmptyArr
    /\ template = InitTemplate
    /\ overlapVals = <<>>
    /\ overlapIndicesBuffer = <<>>
    /\ overlapValBuffer = <<>>
    /\ keptOverlapIndices = <<>>
    /\ inflPointDict = <<>>
    /\ pc = "ready"
    /\ \E y \in SmoothSignals, w \in (-MaxWindow)..MaxWindow, p \in 0..SmoothOrder :
          args = SmoothArgs(y, w, p)
    /\ pending = <<>>
    /\ retval = [kind |-> "nocall", value |-> <<>>]
    /\ printed = NoPrint
    /\ history = <<>>
    /\ pass = NoPass
    /\ gui = NoGui
    /\ marked = NoMarked

\* the call of line 209, alone, with any window and order
ApplySavGol ==
    /\ pc = "ready"
    /\ pc' = "smoothed"
    /\ \E r \in {savitzky_golay(args.y, args.window_size, args.order)} :
          pass' = [NoPass EXCEPT !.key = "a", !.stage = "smooth",
                                 !.raised = ~r.ok, !.pressData = r.ys]
    /\ UNCHANGED Fields
    /\ UNCHANGED <<args, pending, retval, printed, history>>
    /\ UNCHANGED <<gui, marked>>

NextSavGol == ApplySavGol

SpecSavGol == InitSavGol /\ [][NextSavGol]_vars

-----------------------------------------------------------------------------
(* The labelling tool: the window opens on the data file, with no saved    *)
(* marks or with those of an earlier session; the user clicks on samples,  *)
(* toggles the kind of mark, saves, moves forward and backward, closes.    *)

\* the sample indices a click can land on
ClickPoints == {0, 1, 3}

\* the saved files an earlier session can have left: none, or marks for the
\* first dataset, or marks for both
SavedFile(d) == [exists |-> TRUE, dict |-> d]
EarlierSessions ==
    { [hs |-> NoFile, to |-> NoFile],
      [hs |-> SavedFile([k \in {"a"} |-> <<1>>]),
       to |-> SavedFile([k \in {"a"} |-> <<>>])],
      [hs |-> SavedFile([k \in Keys |-> IF k = "a" THEN <<0, 3>> ELSE <<1>>]),
       to |-> SavedFile([k \in Keys |-> IF k = "a" THEN <<1>> ELSE <<3>>])] }

\* the marks made for each dataset so far
MarksOf(hs_file, to_file) ==
    [k \in Keys |->
        [hs |-> IF k \in DOMAIN hs_file.dict THEN hs_file.dict[k] ELSE <<>>,
         to |-> IF k \in DOMAIN to_file.dict THEN to_file.dict[k] ELSE <<>>]]

InitGui ==
    /\ templateArr = EmptyArr
    /\ template = InitTemplate
    /\ overlapVals = <<>>
    /\ overlapIndicesBuffer = <<>>
    /\ overlapValBuffer = <<>>
    /\ keptOverlapIndices = <<>>
    /\ inflPointDict = <<>>
    /\ pc = "gui"
    /\ args = NoArgs
    /\ pending = <<>>
    /\ retval = [kind |-> "nocall", value |-> <<>>]
    /\ printed = NoPrint
    /\ history = <<>>
    /\ pass = NoPass
    /\ \E e \in EarlierSessions :
          /\ gui = SignalGraphWindow(e.hs, e.to)
          /\ marked = [marks |-> MarksOf(e.hs, e.to), clicks |-> 0]

NotGui == <<templateArr, template, overlapVals, overlapIndicesBuffer,
            overlapValBuffer, keptOverlapIndices, inflPointDict, pc, args,
            pending, retval, printed, history, pass>>

\* the first occurrence of v taken out of q
RECURSIVE Without(_, _)
Without(q, v) ==
    IF q = <<>> THEN <<>>
    ELSE IF Head(q) = v THEN Tail(q) ELSE <<Head(q)>> \o Without(Tail(q), v)

\* the marks of the dataset shown, after a click that on_plot_click handled:
\* a new marker is a new mark, a marker taken away is a mark taken back
Remark(m, kind, before, after, index) ==
    IF Len(after) > Len(before) THEN [m EXCEPT ![kind] = Append(@, index)]
    ELSE [m EXCEPT ![kind] = Without(@, CHOOSE v \in Range(before) :
                                 \E k \in 1..Len(before) :
                                     before[k] = v /\ RemoveAt(before, k) = after)]

\* the user clicks on a sample
Click(index) ==
    /\ gui.pos = "open"
    /\ marked.clicks < MaxClicks
    /\ \E r \in {on_plot_click(gui, index)} :
          /\ gui' \in AfterSlot(r)
          /\ marked' =
               [marks |->
                  IF r.pos = "raised" THEN marked.marks
                  ELSE [marked.marks EXCEPT ![CurrentKey(gui)] =
                          IF gui.inflMarker = "Heel Strike"
                          THEN Remark(@, "hs", gui.hs_markers, r.hs_markers, index)
                          ELSE Remark(@, "to", gui.to_markers, r.to_markers, index)],
                clicks |-> marked.clicks + 1]
    /\ UNCHANGED NotGui

Toggle ==
    /\ gui.pos = "open"
    /\ gui' = hs_to_toggle(gui)
    /\ UNCHANGED marked
    /\ UNCHANGED NotGui

Save ==
    /\ gui.pos = "open"
    /\ gui' = save_indices(gui)
    /\ UNCHANGED marked
    /\ UNCHANGED NotGui

Forward ==
    /\ gui.pos = "open"
    /\ gui' = change_data_to_mark_forward(gui)
    /\ UNCHANGED marked
    /\ UNCHANGED NotGui

Backward ==
    /\ gui.pos = "open"
    /\ gui' \in AfterSlot(change_data_to_mark_backward(gui))
    /\ UNCHANGED marked
    /\ UNCHANGED NotGui

Close ==
    /\ gui.pos = "open"
    /\ gui' = closeEvent(gui)
    /\ UNCHANGED marked
    /\ UNCHANGED NotGui

NextGui ==
    \/ \E index \in ClickPoints : Click(index)
    \/ Toggle
    \/ Save
    \/ Forward
    \/ Backward
    \/ Close

SpecGui == InitGui /\ [][NextGui]_vars

-----------------------------------------------------------------------------
(* Claims *)

\* the labels of the call as a set of sample positions of signal y
LabelSet(labels) == Range(labels)
\* the place of label l among the labels in increasing order
RankOf(l, labels) == Cardinality({l2 \in LabelSet(labels) : l2 <= l})

\* C1: after upsample_with_inflections, for any signal, labels and factor
\* >= 1, the returned signal holds at the re-mapped index of every label
\* exactly the raw sample of that label, and distinct labels are re-mapped
\* to distinct indices (one returned index per distinct label, increasing,
\* all inside the returned signal).
C1_RoundTrip ==
    (pc = "upsampled" /\ pass.up.ok) =>
        LET y      == args.press["a"]
            labels == args.ind["a"]
            up     == pass.up
        IN  /\ Len(up.ind) = Cardinality(LabelSet(labels))
            /\ \A k \in 1..Len(up.ind) : up.ind[k] \in 0..(Len(up.yNew) - 1)
            /\ \A k1, k2 \in 1..Len(up.ind) : k1 < k2 => up.ind[k1] < up.ind[k2]
            /\ \A l \in LabelSet(labels) :
                  up.yNew[up.ind[RankOf(l, labels)] + 1] = y[l + 1]

\* C1 witness: a factor above 1, two distinct labels, and a label whose
\* re-mapped position had another, interpolated, value before line 81.
C1_Witness ==
    /\ pc = "upsampled"
    /\ pass.up.ok
    /\ args.upSampleFact > 1
    /\ Cardinality(LabelSet(args.ind["a"])) >= 2
    /\ \E l \in LabelSet(args.ind["a"]) :
          LET j == pass.up.ind[RankOf(l, args.ind["a"])]
          IN  /\ Interp(args.press["a"], j, args.upSampleFact) # args.press["a"][l + 1]
              /\ pass.up.yNew[j + 1] = args.press["a"][l + 1]

-----------------------------------------------------------------------------
(* What a dataset pass met, for the claims about find_template_extract_inds *)

\* the pass of the current call reached find_infl_using_template with a
\* template that is an array, and stored its result (lines 212-214)
PassStored == pass.stage = "stored"

\* the similarity trace of the last pass: the scores line 163 appended in it.
\* Element t is the score of window start i = len(template) + t, which the
\* code buffers under position i - len(template) = t.
PassTrace ==
    SubSeq(overlapVals, Len(pass.before.overlapVals) + 1, Len(overlapVals))

\* the detections the last pass appended to self.keptOverlapIndices
PassKept ==
    SubSeq(keptOverlapIndices, Len(pass.before.keptOverlapIndices) + 1,
           Len(keptOverlapIndices))

\* the maximal runs of scores > 0 of a trace that a score <= 0 closes, as
\* pairs <<first, last>> of trace places, in trace order
ClosedRuns(trace) ==
    LET ends == {e \in 1..(Len(trace) - 1) : trace[e] > 0 /\ trace[e + 1] <= 0}
        first(e) == CHOOSE b \in 1..e :
                        /\ \A t \in b..e : trace[t] > 0
                        /\ (b = 1 \/ trace[b - 1] <= 0)
        es == SortedSeq(ends)
    IN  [r \in 1..Len(es) |-> <<first(es[r]), es[r]>>]

\* a pass on fields no earlier pass has touched
FreshFields(before) ==
    /\ before.templateArr = EmptyArr
    /\ before.overlapValBuffer = <<>>
    /\ before.overlapIndicesBuffer = <<>>
    /\ before.keptOverlapIndices = <<>>
    /\ before.overlapVals = <<>>

EmptyFindFields ==
    [overlapVals |-> <<>>, overlapIndicesBuffer |-> <<>>,
     overlapValBuffer |-> <<>>, keptOverlapIndices |-> <<>>, problems |-> 0]

\* C2: idempotence.  Two finished calls of find_template_extract_inds with
\* identical mappings and parameters that both returned a mapping returned
\* the same InflectionIndexSet for every key.
C2_Idempotent ==
    \A i, j \in 1..Len(history) :
        (/\ i < j
         /\ history[i].args = history[j].args
         /\ history[i].retval.kind = "dict"
         /\ history[j].retval.kind = "dict")
        => history[j].retval.value = history[i].retval.value

\* C3: dataset isolation.  What a pass stores under its key is exactly what
\* the peak extractor detects on this dataset's own similarity trace (the
\* pass's smoothed signal against the template it used), starting from an
\* empty buffer and no kept detections.
C3_DatasetIsolation ==
    PassStored =>
        inflPointDict[pass.key] =
            OffsetAdjust(
                find_infl_using_template(EmptyFindFields, pass.pressData, template,
                                         args.signalIncreaseVal).keptOverlapIndices,
                Len(template.v))

\* the windows of full width of the labels ind of one dataset, in label
\* order, and their column-wise mean
OwnWindows(data, ind) ==
    LET full == SelectSeq(ind, LAMBDA i : i - lowerInflPointRange >= 0
                                          /\ i + upperInflPointRange <= Len(data))
    IN  [r \in 1..Len(full) |->
            SubSeq(data, full[r] - lowerInflPointRange + 1,
                   full[r] + upperInflPointRange)]
OwnMean(rows) ==
    [j \in 1..(lowerInflPointRange + upperInflPointRange) |->
        SumSeq([r \in 1..Len(rows) |-> rows[r][j]]) \div Len(rows)]

\* C4: the template a dataset is matched with is the column-wise mean of
\* the windows of that dataset's own labels only, of width lowerRange +
\* upperRange.
C4_TemplateRebuilt ==
    PassStored =>
        /\ Len(template.v) = lowerInflPointRange + upperInflPointRange
        /\ OwnWindows(pass.pressData, pass.up.ind) # <<>>
        /\ template.v = OwnMean(OwnWindows(pass.pressData, pass.up.ind))

\* C5: one index per run.  In a pass that starts with an empty buffer, the
\* detections appended are one per closed run of the trace, in order, and
\* each is (a buffered position of maximum score of its run) - 1; the
\* buffer then holds only the run still open at the end of the trace.
C5_OnePerRun ==
    (PassStored /\ pass.before.overlapValBuffer = <<>>) =>
        LET runs == ClosedRuns(PassTrace)
        IN  /\ Len(PassKept) = Len(runs)
            /\ \A r \in 1..Len(runs) :
                  \E t \in runs[r][1]..runs[r][2] :
                      /\ \A u \in runs[r][1]..runs[r][2] : PassTrace[u] <= PassTrace[t]
                      /\ PassKept[r] = t - 1

\* C6: a run still open when a trace ends is dropped.  Every pass starts
\* with an empty detection buffer, and a pass whose own trace closes no run
\* emits nothing.
C6_OpenRunDropped ==
    pass.stage \in {"stored", "offset"} =>
        /\ pass.before.overlapValBuffer = <<>>
        /\ pass.before.overlapIndicesBuffer = <<>>
        /\ (ClosedRuns(PassTrace) = <<>> => PassKept = <<>>)

\* Python's round(0.5 * L): halves go to the even neighbour
RoundHalf(L) ==
    IF L % 2 = 0 THEN L \div 2
    ELSE IF ((L - 1) \div 2) % 2 = 0 THEN (L - 1) \div 2 ELSE (L + 1) \div 2

\* The trace of the last pass holds an exact copy of the template at window
\* start k (score = bias), neither first nor last of the trace, and every
\* other window scores <= 0.
SingleMatchAt(k) ==
    LET t == k - Len(template.v)
    IN  /\ PassStored
        /\ 1 < t /\ t < Len(PassTrace)
        /\ PassTrace[t] = args.signalIncreaseVal
        /\ PassTrace[t] > 0
        /\ \A u \in 1..Len(PassTrace) : u # t => PassTrace[u] <= 0

StartsOf(trace) == {Len(template.v) + t : t \in 1..Len(trace)}

\* C7 as the specification states it: the index detected for the match at k
\* is k + L + round(0.5 * L), within one sample.
C7_AsStated ==
    \A k \in StartsOf(PassTrace) :
        SingleMatchAt(k) =>
            LET L    == Len(template.v)
                got  == inflPointDict[pass.key][Len(inflPointDict[pass.key])]
                want == k + L + RoundHalf(L)
            IN  /\ Len(inflPointDict[pass.key]) >= 1
                /\ got - want <= 1 /\ want - got <= 1

\* C7, amended: the index detected for the match at k is k + int(0.5 * L) - 1
\* (the position is buffered as k - L, line 168, so the + L of line 213 only
\* undoes that); it is the last index stored for the dataset, and the only
\* one when the pass started with no kept detection and an empty buffer.
C7_MatchIndex ==
    \A k \in StartsOf(PassTrace) :
        SingleMatchAt(k) =>
            LET L   == Len(template.v)
                out == inflPointDict[pass.key]
            IN  /\ Len(out) >= 1
                /\ out[Len(out)] = k + L \div 2 - 1
                /\ (pass.before.keptOverlapIndices = <<>>
                    /\ pass.before.overlapValBuffer = <<>>)
                       => out = <<k + L \div 2 - 1>>

\* C7 witness: a pass on untouched fields with a single exact match
C7_Witness ==
    /\ FreshFields(pass.before)
    /\ \E k \in StartsOf(PassTrace) : SingleMatchAt(k)

\* C8: key mismatch.  A call whose two mappings have different key sets
\* prints the message, returns None at once and changes no field of the
\* instance: nothing is upsampled, smoothed, extracted or matched.
C8_KeyMismatch ==
    [][ (/\ pc \in {"idle", "raised"}
         /\ args' # args \/ Len(history') > Len(history)
         /\ DOMAIN args'.press # DOMAIN args'.ind)
        => (/\ UNCHANGED Fields
            /\ retval'.kind = "none"
            /\ pc' = "idle"
            /\ pending' = <<>>
            /\ pass'.stage = "none"
            /\ printed' = [keys |-> 1, extract |-> 0, template |-> 0]) ]_vars

\* C8 witness: a mismatching call made on an instance that an earlier call
\* had filled, and that still holds what that call left
C8_Witness ==
    /\ Len(history) = 2
    /\ history[1].retval.kind = "dict"
    /\ history[2].retval.kind = "none"
    /\ DOMAIN history[2].args.press # DOMAIN history[2].args.ind
    /\ templateArr.ndim = 2
    /\ inflPointDict = history[1].retval.value

\* C9: a dataset failure is recoverable.  When the pass of one dataset of a
\* batch of several fails, the call still returns a mapping, and it holds
\* every other dataset of the batch.
C9_FailureRecoverable ==
    (pc = "raised" /\ Cardinality(DOMAIN args.press) >= 2) =>
        /\ retval.kind = "dict"
        /\ \A k \in DOMAIN args.press \ {pass.key} : k \in DOMAIN retval.value

\* the rows self.templateArr holds
RowsOf(arr) ==
    IF arr.ndim = 2 THEN arr.rows
    ELSE IF arr.rows[1] = <<>> THEN <<>> ELSE <<arr.rows[1]>>

\* a label on the first or on the last sample of a signal of n samples
IsBoundary(i, n) == i = 0 \/ i = n - 1

\* C10: boundary rejection.  When the labels given to extract_template on a
\* new instance hold a label at 0 or at len(signal) - 1, wherever in the
\* list, and every other label has a window of full width, the rows kept
\* are exactly the windows of the other labels, and the template is their
\* column-wise mean, of width lowerRange + upperRange.
C10_BoundarySkipped ==
    pc = "extracted" =>
        LET data == args.press["a"]
            ind  == args.ind["a"]
            rest == SelectSeq(ind, LAMBDA i : ~IsBoundary(i, Len(data)))
        IN  (/\ \E k \in 1..Len(ind) : IsBoundary(ind[k], Len(data))
             /\ Len(OwnWindows(data, rest)) = Len(rest))
            => /\ RowsOf(templateArr) = OwnWindows(data, rest)
               /\ Len(rest) >= 2 =>
                     template = [kind |-> "vector",
                                 v |-> OwnMean(OwnWindows(data, rest))]

\* label i of a signal of n samples has its whole window inside the signal
FullWindow(i, n) ==
    i - lowerInflPointRange >= 0 /\ i + upperInflPointRange <= n

\* C11: template correctness.  When every label given to extract_template
\* on a new instance has a window of full width and all these windows are
\* the same vector v, for one label or several, the template is v itself,
\* element for element and of the same length.
C11_TemplateIsWindow ==
    pc = "extracted" =>
        LET data == args.press["a"]
            ind  == args.ind["a"]
            v    == Window(data, ind[1])
        IN  (\A k \in 1..Len(ind) :
                 FullWindow(ind[k], Len(data)) /\ Window(data, ind[k]) = v)
            => template = [kind |-> "vector", v |-> v]

\* C12: skips are observable.  For every label given to extract_template
\* whose window does not lie wholly inside the signal, the label is left out
\* of the rows that are averaged and a diagnostic is printed for it; no row
\* kept is a partial window.
C12_SkipsObservable ==
    pc = "extracted" =>
        LET data == args.press["a"]
            ind  == args.ind["a"]
        IN  /\ \A k \in 1..Len(ind) :
                  ~FullWindow(ind[k], Len(data)) => pass.skipped[k]
            /\ \A r \in 1..Len(RowsOf(templateArr)) :
                  Len(RowsOf(templateArr)[r]) = lowerInflPointRange + upperInflPointRange

\* C14: smoother configuration errors.  savitzky_golay raises exactly when
\* the window width w is not a positive odd integer (zero, even or
\* negative) or w < p + 2, p the polynomial order.
C14_ConfigurationErrors ==
    pc = "smoothed" =>
        LET w == args.window_size
            p == args.order
        IN  pass.raised <=> (w < 1 \/ w % 2 # 1 \/ w < p + 2)

\* a window width and order the specification calls valid
ValidWindow(w, p) == w >= 1 /\ w % 2 = 1 /\ w >= p + 2

\* C15: smoother length preservation.  For every signal of at least one
\* sample and every valid window width, savitzky_golay returns as many
\* samples as the signal has.
C15_LengthPreserved ==
    (pc = "smoothed" /\ ValidWindow(args.window_size, args.order)) =>
        /\ ~pass.raised
        /\ Len(pass.pressData) = Len(args.y)

\* |a - b|
Dist(a, b) == IF a >= b THEN a - b ELSE b - a

\* the new positions are n*f values evenly spaced from 0 to n - 1 (xNew holds
\* them as numerators over LinspaceDen(n, f))
EvenlySpaced(xNew, n, f) ==
    /\ Len(xNew) = n * f
    /\ xNew[1] = 0
    /\ xNew[Len(xNew)] = (n - 1) * LinspaceDen(n, f)
    /\ \A j \in 1..(Len(xNew) - 1) : xNew[j + 1] - xNew[j] = n - 1

RECURSIVE OpenRun(_)
OpenRun(trace) ==
    IF trace = <<>> \/ trace[Len(trace)] <= 0 THEN <<>>
    ELSE Append(OpenRun(SubSeq(trace, 1, Len(trace) - 1)), trace[Len(trace)])

\* C17: on a new instance with a template of full width the matcher never
\* enters its exception handler (no 'Problem using template' is printed),
\* and every position above the threshold adds one (position, score) pair
\* to the buffer, so that after the pass the buffer holds the open run.
C17_NoHandler ==
    (PassStored /\ FreshFields(pass.before)
       /\ Len(template.v) = lowerInflPointRange + upperInflPointRange) =>
        /\ printed.template = 0
        /\ overlapValBuffer = OpenRun(PassTrace)
        /\ Len(overlapIndicesBuffer) = Len(overlapValBuffer)

\* C18: marks are never lost by navigation.  When the window has been
\* closed, the heel-strike and toe-off lists written to the two files for
\* each dataset are the lists that were marked for it, whatever 'forward',
\* 'backward' and 'save' events came after the last click.
C18_MarksKept ==
    gui.pos = "closed" =>
        \A k \in Keys :
            LET hs == IF k \in DOMAIN gui.hs_file.dict THEN gui.hs_file.dict[k] ELSE <<>>
                to == IF k \in DOMAIN gui.to_file.dict THEN gui.to_file.dict[k] ELSE <<>>
            IN  hs = marked.marks[k].hs /\ to = marked.marks[k].to

====
